---- MODULE Spec2Model ----
(***************************************************************************)
(* Model of notebooks/reentrant_cube_capacity.ipynb: the capacity of a     *)
(* cube with a re-entrant corner.                                          *)
(*                                                                         *)
(*   cell 3  operator setup (slp, hyp, rank one regularisation, rhs, lhs)  *)
(*   cell 4  gmres solve, solution recovery, capacity                      *)
(*   cell 5  bary_map                                                      *)
(*   cell 6  diameter(element)                                             *)
(*   cell 7  lift of the solution to the base space                        *)
(*   cell 8  residual error estimator and its aggregation                  *)
(*                                                                         *)
(* Floating point values are held as integers: coefficient vectors in      *)
(* fixed point with Unit standing for 1.0, lengths as the integer square   *)
(* root of Scale^2 times the squared length.                               *)
(***************************************************************************)
EXTENDS Integers, Sequences, FiniteSets, TLC

VARIABLES
    \* cells 3, 4 and 7
    pc, slp, hyp, base_slp, rank_one_op, hyp_regularized, rhs_fun, lhs,
    x, it, info, it_count, sol_fun, capacity, base_sol_fun,
    base_slp_times_sol, err,
    \* cells 5 and 8
    bary_map, entity_index, local_errors_squared_bary, local_errors,
    total_error, capacity_error, k, m, n, writes, reads,
    \* cell 6 on its own
    corners, diam,
    \* the aggregation of cell 8 run by several workers
    acc, wpos, wtmp

pipeVars == <<pc, slp, hyp, base_slp, rank_one_op, hyp_regularized, rhs_fun,
              lhs, x, it, info, it_count, sol_fun, capacity, base_sol_fun,
              base_slp_times_sol, err>>

estVars == <<bary_map, entity_index, local_errors_squared_bary, local_errors,
             total_error, capacity_error, k, m, n, writes, reads>>

diamVars == <<corners, diam>>

parVars == <<acc, wpos, wtmp>>

nonPipeVars == <<estVars, diamVars, parVars>>

vars == <<pipeVars, estVars, diamVars, parVars>>

(***************************************************************************)
(* Bounds of the model.                                                    *)
(***************************************************************************)
Dim == 2        \* degrees of freedom of the spaces on the original grid
MaxV == 2       \* largest entry of the single layer matrix
MaxW == 2       \* largest weight of the hypersingular matrix
MaxX == 2       \* largest magnitude of an entry of a gmres iterate
MaxIter == 3    \* iteration cap of the Krylov solver

\* Fixed point representation of 1.0 in coefficient vectors.
Unit == Dim * MaxV

(***************************************************************************)
(* Small helpers.                                                          *)
(***************************************************************************)
Abs(v) == IF v < 0 THEN -v ELSE v

RECURSIVE SumTo(_, _)
\* f[1] + ... + f[c]
SumTo(f, c) == IF c = 0 THEN 0 ELSE f[c] + SumTo(f, c - 1)

Dofs == 1..Dim
BaseDofs == 1..(Dim + Dim)

ZeroVec(S) == [i \in S |-> 0]
ZeroMat(R, C) == [i \in R |-> [j \in C |-> 0]]

Size(f) == Cardinality(DOMAIN f)

\* Matrix times vector.
MatVec(mat, v) ==
    [i \in DOMAIN mat |-> SumTo([j \in DOMAIN v |-> mat[i][j] * v[j]], Size(v))]

\* Matrix times matrix.
MatMul(m1, m2) ==
    [i \in DOMAIN m1 |->
        [j \in DOMAIN m2[1] |->
            SumTo([l \in DOMAIN m2 |-> m1[i][l] * m2[l][j]], Size(m2))]]

MatAdd(m1, m2) == [i \in DOMAIN m1 |-> [j \in DOMAIN m1[i] |-> m1[i][j] + m2[i][j]]]

Norm1(v) == SumTo([i \in DOMAIN v |-> Abs(v[i])], Size(v))

(***************************************************************************)
(* Function spaces, boundary operators and grid functions.                 *)
(***************************************************************************)
\* piecewise constants on the dual grid, continuous piecewise linears on the
\* original grid, discontinuous piecewise linears on the barycentric grid
P0Dual == "DUAL0"
P1 == "P1"
DP1Bary == "DP1bary"
NoSpace == "none"

NoOp == [domain |-> NoSpace, range |-> NoSpace, dual_to_range |-> NoSpace,
         mat |-> ZeroMat(Dofs, Dofs)]
NoFun == [space |-> NoSpace, coef |-> ZeroVec(Dofs)]

\* The spaces of V and W as the specification words them: each operator
\* has one space as its domain and its range.
SpecAssignment ==
    [name |-> "same",
     slp |-> [domain |-> P0Dual, range |-> P0Dual, dual_to_range |-> P0Dual],
     hyp |-> [domain |-> P1, range |-> P1, dual_to_range |-> P1]]

\* The spaces under which the product slp * hyp of the notebook is typed:
\* the hypersingular operator maps into the domain of the single layer
\* operator.
CrossAssignment ==
    [name |-> "cross",
     slp |-> [domain |-> P0Dual, range |-> P1, dual_to_range |-> P0Dual],
     hyp |-> [domain |-> P1, range |-> P0Dual, dual_to_range |-> P1]]

SpaceAssignments == {SpecAssignment, CrossAssignment}

\* Single layer matrix: a on the diagonal, b off it.
SlpMat(S, a, b) == [i \in S |-> [j \in S |-> IF i = j THEN a ELSE b]]

\* Hypersingular matrix: symmetric, positive semi-definite, zero on constants.
HypMat(w) == [i \in Dofs |-> [j \in Dofs |-> IF i = j THEN w * (Dim - 1) ELSE -w]]

\* <Rw, v> = <w, 1><v, 1>
RankOneMat == [i \in Dofs |-> [j \in Dofs |-> 1]]

\* Operator sum: the operands must share domain, range and dual space.
SumValid(op1, op2) ==
    /\ op1.domain = op2.domain
    /\ op1.range = op2.range
    /\ op1.dual_to_range = op2.dual_to_range

OpSum(op1, op2) == [op1 EXCEPT !.mat = MatAdd(op1.mat, op2.mat)]

\* Operator product op1 * op2: op2 maps into the domain of op1.
ProductValid(op1, op2) == op2.range = op1.domain

OpProduct(op1, op2) ==
    [domain |-> op2.domain, range |-> op1.range,
     dual_to_range |-> op1.dual_to_range, mat |-> MatMul(op1.mat, op2.mat)]

\* Operator applied to a grid function: the function lies in the domain.
ApplyValid(op, fun) == fun.space = op.domain

OpApply(op, fun) == [space |-> op.range, coef |-> MatVec(op.mat, fun.coef)]

\* integrate(): the integral over the surface, a dot product of the
\* coefficients with the weights of the space (all one on a uniform grid).
Integrate(fun) == SumTo(fun.coef, Size(fun.coef))

\* res[0] = -1
one_fun == -1

(***************************************************************************)
(* Cell 3: operator setup.                                                 *)
(***************************************************************************)
Raise(e) ==
    /\ err' = e
    /\ pc' = "raised"

\* slp, hyp, base_slp = single_layer_and_hypersingular_pair(grid, spaces='dual', return_base_slp=True)
AssemblePair ==
    /\ pc = "cell3"
    /\ \E asg \in SpaceAssignments, a \in 1..MaxV, w \in 1..MaxW :
         \E b \in 0..(a - 1) :
           /\ slp' = [domain |-> asg.slp.domain, range |-> asg.slp.range,
                      dual_to_range |-> asg.slp.dual_to_range,
                      mat |-> SlpMat(Dofs, a, b)]
           /\ hyp' = [domain |-> asg.hyp.domain, range |-> asg.hyp.range,
                      dual_to_range |-> asg.hyp.dual_to_range,
                      mat |-> HypMat(w)]
           /\ base_slp' = [domain |-> DP1Bary, range |-> DP1Bary,
                           dual_to_range |-> DP1Bary,
                           mat |-> SlpMat(BaseDofs, a, b)]
    /\ pc' = "rank_one"
    /\ UNCHANGED <<rank_one_op, hyp_regularized, rhs_fun, lhs, x, it, info,
                   it_count, sol_fun, capacity, base_sol_fun,
                   base_slp_times_sol, err>>
    /\ UNCHANGED nonPipeVars

\* rank_one_op = RankOneBoundaryOperator(hyp.domain, hyp.range, hyp.dual_to_range)
MakeRankOne ==
    /\ pc = "rank_one"
    /\ rank_one_op' = [domain |-> hyp.domain, range |-> hyp.range,
                       dual_to_range |-> hyp.dual_to_range, mat |-> RankOneMat]
    /\ pc' = "regularize"
    /\ UNCHANGED <<slp, hyp, base_slp, hyp_regularized, rhs_fun, lhs, x, it,
                   info, it_count, sol_fun, capacity, base_sol_fun,
                   base_slp_times_sol, err>>
    /\ UNCHANGED nonPipeVars

\* hyp_regularized = hyp + rank_one_op
Regularize ==
    /\ pc = "regularize"
    /\ IF SumValid(hyp, rank_one_op)
       THEN /\ hyp_regularized' = OpSum(hyp, rank_one_op)
            /\ pc' = "rhs"
            /\ UNCHANGED err
       ELSE /\ Raise("ValueError")
            /\ UNCHANGED hyp_regularized
    /\ UNCHANGED <<slp, hyp, base_slp, rank_one_op, rhs_fun, lhs, x, it, info,
                   it_count, sol_fun, capacity, base_sol_fun,
                   base_slp_times_sol>>
    /\ UNCHANGED nonPipeVars

\* MakeRhs with the right-hand side built in the domain of slp.
MakeRhs_InDomain ==
    /\ pc = "rhs"
    /\ rhs_fun' = [space |-> slp.domain, coef |-> [i \in Dofs |-> one_fun * Unit]]
    /\ pc' = "lhs"
    /\ UNCHANGED <<slp, hyp, base_slp, rank_one_op, hyp_regularized, lhs, x, it,
                   info, it_count, sol_fun, capacity, base_sol_fun,
                   base_slp_times_sol, err>>
    /\ UNCHANGED nonPipeVars

\* rhs_fun = GridFunction(slp.range, fun=one_fun)
MakeRhs ==
    /\ pc = "rhs"
    /\ rhs_fun' = [space |-> slp.range, coef |-> [i \in Dofs |-> one_fun * Unit]]
    /\ pc' = "lhs"
    /\ UNCHANGED <<slp, hyp, base_slp, rank_one_op, hyp_regularized, lhs, x, it,
                   info, it_count, sol_fun, capacity, base_sol_fun,
                   base_slp_times_sol, err>>
    /\ UNCHANGED nonPipeVars

\* lhs = slp * hyp_regularized
ComposeLhs ==
    /\ pc = "lhs"
    /\ IF ProductValid(slp, hyp_regularized)
       THEN /\ lhs' = OpProduct(slp, hyp_regularized)
            /\ pc' = "gmres_call"
            /\ UNCHANGED err
       ELSE /\ Raise("ValueError")
            /\ UNCHANGED lhs
    /\ UNCHANGED <<slp, hyp, base_slp, rank_one_op, hyp_regularized, rhs_fun, x,
                   it, info, it_count, sol_fun, capacity, base_sol_fun,
                   base_slp_times_sol>>
    /\ UNCHANGED nonPipeVars

(***************************************************************************)
(* Cell 4: the Krylov solve.  gmres(lhs, rhs_fun, use_strong_form=True,    *)
(* return_iteration_count=True) iterates on coefficient vectors until the  *)
(* relative residual is below the tolerance or the iteration cap is hit,   *)
(* and returns (x, info, it_count) with info = 0 for a converged solve.    *)
(***************************************************************************)
\* Relative residual tolerance TolNum / TolDen = 1e-5.
TolNum == 1
TolDen == 100000

Iterates == [Dofs -> (-MaxX)..0]

\* Norm of rhs - A v.
Residual(A, b, v) ==
    LET Av == MatVec(A.mat, v)
    IN  Norm1([i \in DOMAIN b.coef |-> b.coef[i] - Av[i]])

\* relative residual < tolerance
Converged(A, b, v) == Residual(A, b, v) * TolDen < TolNum * Norm1(b.coef)

\* The call: the right-hand side must lie in the range of the operator.
GmresCall ==
    /\ pc = "gmres_call"
    /\ IF lhs.range = rhs_fun.space
       THEN /\ x' = [space |-> lhs.domain, coef |-> ZeroVec(Dofs)]
            /\ it' = 0
            /\ pc' = "gmres"
            /\ UNCHANGED err
       ELSE /\ Raise("ValueError")
            /\ UNCHANGED <<x, it>>
    /\ UNCHANGED <<slp, hyp, base_slp, rank_one_op, hyp_regularized, rhs_fun,
                   lhs, info, it_count, sol_fun, capacity, base_sol_fun,
                   base_slp_times_sol>>
    /\ UNCHANGED nonPipeVars

\* GmresIterate with the cap tested one iteration late.
GmresIterate_LateCap ==
    /\ pc = "gmres"
    /\ ~Converged(lhs, rhs_fun, x.coef)
    /\ it <= MaxIter
    /\ LET last == Residual(lhs, rhs_fun, x.coef)
       IN  \E v \in Iterates :
             /\ x' = [x EXCEPT !.coef = v]
             /\ Residual(lhs, rhs_fun, v) <= last
    /\ it' = it + 1
    /\ UNCHANGED <<pc, slp, hyp, base_slp, rank_one_op, hyp_regularized,
                   rhs_fun, lhs, info, it_count, sol_fun, capacity,
                   base_sol_fun, base_slp_times_sol, err>>
    /\ UNCHANGED nonPipeVars

\* One iteration: the next iterate has a residual no larger than the last.
GmresIterate ==
    /\ pc = "gmres"
    /\ ~Converged(lhs, rhs_fun, x.coef)
    /\ it < MaxIter
    /\ LET last == Residual(lhs, rhs_fun, x.coef)
       IN  \E v \in Iterates :
             /\ x' = [x EXCEPT !.coef = v]
             /\ Residual(lhs, rhs_fun, v) <= last
    /\ it' = it + 1
    /\ UNCHANGED <<pc, slp, hyp, base_slp, rank_one_op, hyp_regularized,
                   rhs_fun, lhs, info, it_count, sol_fun, capacity,
                   base_sol_fun, base_slp_times_sol, err>>
    /\ UNCHANGED nonPipeVars

\* The return: x, info, it_count = ...
GmresReturn ==
    /\ pc = "gmres"
    /\ Converged(lhs, rhs_fun, x.coef) \/ it = MaxIter
    /\ info' = IF Converged(lhs, rhs_fun, x.coef) THEN 0 ELSE it
    /\ it_count' = it
    /\ pc' = "sol_fun"
    /\ UNCHANGED <<slp, hyp, base_slp, rank_one_op, hyp_regularized, rhs_fun,
                   lhs, x, it, sol_fun, capacity, base_sol_fun,
                   base_slp_times_sol, err>>
    /\ UNCHANGED nonPipeVars

\* FormSolution that refuses an iterate of a solve that did not converge.
FormSolution_RequireConverged ==
    /\ pc = "sol_fun"
    /\ IF ApplyValid(hyp_regularized, x) /\ info = 0
       THEN /\ sol_fun' = OpApply(hyp_regularized, x)
            /\ pc' = "capacity"
            /\ UNCHANGED err
       ELSE /\ Raise("ValueError")
            /\ UNCHANGED sol_fun
    /\ UNCHANGED <<slp, hyp, base_slp, rank_one_op, hyp_regularized, rhs_fun,
                   lhs, x, it, info, it_count, capacity, base_sol_fun,
                   base_slp_times_sol>>
    /\ UNCHANGED nonPipeVars

\* FormSolution with the unregularized operator: sol_fun = hyp * x.
FormSolution_Unregularized ==
    /\ pc = "sol_fun"
    /\ IF ApplyValid(hyp, x)
       THEN /\ sol_fun' = OpApply(hyp, x)
            /\ pc' = "capacity"
            /\ UNCHANGED err
       ELSE /\ Raise("ValueError")
            /\ UNCHANGED sol_fun
    /\ UNCHANGED <<slp, hyp, base_slp, rank_one_op, hyp_regularized, rhs_fun,
                   lhs, x, it, info, it_count, capacity, base_sol_fun,
                   base_slp_times_sol>>
    /\ UNCHANGED nonPipeVars

\* sol_fun = hyp_regularized * x
FormSolution ==
    /\ pc = "sol_fun"
    /\ IF ApplyValid(hyp_regularized, x)
       THEN /\ sol_fun' = OpApply(hyp_regularized, x)
            /\ pc' = "capacity"
            /\ UNCHANGED err
       ELSE /\ Raise("ValueError")
            /\ UNCHANGED sol_fun
    /\ UNCHANGED <<slp, hyp, base_slp, rank_one_op, hyp_regularized, rhs_fun,
                   lhs, x, it, info, it_count, capacity, base_sol_fun,
                   base_slp_times_sol>>
    /\ UNCHANGED nonPipeVars

\* print("The capacity is {0}.".format(-sol_fun.integrate()[0,0]))
ReportCapacity ==
    /\ pc = "capacity"
    /\ capacity' = -Integrate(sol_fun)
    /\ pc' = "lift"
    /\ UNCHANGED <<slp, hyp, base_slp, rank_one_op, hyp_regularized, rhs_fun,
                   lhs, x, it, info, it_count, sol_fun, base_sol_fun,
                   base_slp_times_sol, err>>
    /\ UNCHANGED nonPipeVars

(***************************************************************************)
(* Cell 7: the solution in the base space of the barycentric refinement.   *)
(***************************************************************************)
\* identity(domain, range, dual_to_range): each dof of the refinement takes
\* the value of the dof of the original grid it refines.
IdentityOp(domain, range, dual_to_range) ==
    [domain |-> domain, range |-> range, dual_to_range |-> dual_to_range,
     mat |-> [i \in BaseDofs |-> [j \in Dofs |-> IF ((i - 1) % Dim) + 1 = j THEN 1 ELSE 0]]]

\* map_to_base_space = identity(sol_fun.space, base_slp.domain, base_slp.domain)
\* base_sol_fun = map_to_base_space * sol_fun
LiftToBase ==
    /\ pc = "lift"
    /\ LET map_to_base_space == IdentityOp(sol_fun.space, base_slp.domain, base_slp.domain)
       IN  IF ApplyValid(map_to_base_space, sol_fun)
           THEN /\ base_sol_fun' = OpApply(map_to_base_space, sol_fun)
                /\ pc' = "base_slp"
                /\ UNCHANGED err
           ELSE /\ Raise("ValueError")
                /\ UNCHANGED base_sol_fun
    /\ UNCHANGED <<slp, hyp, base_slp, rank_one_op, hyp_regularized, rhs_fun,
                   lhs, x, it, info, it_count, sol_fun, capacity,
                   base_slp_times_sol>>
    /\ UNCHANGED nonPipeVars

\* base_slp_times_sol = base_slp * base_sol_fun
ApplyBaseSlp ==
    /\ pc = "base_slp"
    /\ IF ApplyValid(base_slp, base_sol_fun)
       THEN /\ base_slp_times_sol' = OpApply(base_slp, base_sol_fun)
            /\ pc' = "done"
            /\ UNCHANGED err
       ELSE /\ Raise("ValueError")
            /\ UNCHANGED base_slp_times_sol
    /\ UNCHANGED <<slp, hyp, base_slp, rank_one_op, hyp_regularized, rhs_fun,
                   lhs, x, it, info, it_count, sol_fun, capacity, base_sol_fun>>
    /\ UNCHANGED nonPipeVars

(***************************************************************************)
(* Cell 6: the diameter of an element.                                     *)
(***************************************************************************)
Scale == 10     \* lengths are held in units of 1 / Scale
MaxCoord == 1   \* corner coordinates range over 0..MaxCoord

RECURSIVE SqrtBetween(_, _, _)
\* The largest r in lo..hi with r * r <= v.
SqrtBetween(v, lo, hi) ==
    IF lo >= hi THEN lo
    ELSE LET mid == (lo + hi + 1) \div 2
         IN  IF mid * mid <= v THEN SqrtBetween(v, mid, hi)
             ELSE SqrtBetween(v, lo, mid - 1)

\* np.sqrt on the integer grid: the square root rounded down.
Sqrt(v) == SqrtBetween(v, 0, v)

\* corners[:, i] - corners[:, j]
Sub(p, q) == [i \in 1..3 |-> p[i] - q[i]]

\* np.linalg.norm of a vector of R^3
Norm(v) == Sqrt(Scale * Scale * (v[1] * v[1] + v[2] * v[2] + v[3] * v[3]))

\* np.max([a, b, c])
Max3(a, b, c) ==
    IF a >= b /\ a >= c THEN a
    ELSE IF b >= c THEN b ELSE c

\* diameter with d2 measured between corners 0 and 2 once more.
Diameter_RepeatedEdge(c) ==
    LET d0 == Norm(Sub(c[1], c[2]))
        d1 == Norm(Sub(c[1], c[3]))
        d2 == Norm(Sub(c[1], c[3]))
    IN  Max3(d0, d1, d2)

\* def diameter(element): c[1], c[2], c[3] are corners[:,0], [:,1], [:,2]
Diameter(c) ==
    LET d0 == Norm(Sub(c[1], c[2]))
        d1 == Norm(Sub(c[1], c[3]))
        d2 == Norm(Sub(c[2], c[3]))
    IN  Max3(d0, d1, d2)

Points == [1..3 -> 0..MaxCoord]
Triangles == [1..3 -> Points]
NoCorners == [i \in 1..3 |-> [j \in 1..3 |-> 0]]

\* One call of diameter(element).
CallDiameter ==
    /\ pc = "diameter"
    /\ diam' = Diameter(corners)
    /\ pc' = "diameter_done"
    /\ UNCHANGED <<corners, estVars, parVars>>
    /\ UNCHANGED <<slp, hyp, base_slp, rank_one_op, hyp_regularized, rhs_fun,
                   lhs, x, it, info, it_count, sol_fun, capacity, base_sol_fun,
                   base_slp_times_sol, err>>

(***************************************************************************)
(* Cells 5 and 8: the descendant map and the residual error estimator.     *)
(***************************************************************************)
NumElements == 2    \* elements of the original grid
FanOut == 6         \* descendants of an element in the barycentric refinement
MaxGrad == 1        \* largest value of surface_grad_norm
MaxNonZero == 2     \* most elements of the refinement with a gradient norm # 0

BaryCount == NumElements * FanOut
Elements == 0..(NumElements - 1)
Columns == 0..(FanOut - 1)
BaryElements == 0..(BaryCount - 1)

\* grid.barycentric_descendents_map(): the numberings of the descendants the
\* grid manager may use, each one to one onto the elements of the refinement.
DescendentMaps ==
    { [e \in Elements |-> [c \in Columns |-> e * FanOut + c]],
      [e \in Elements |-> [c \in Columns |-> c * NumElements + e]],
      [e \in Elements |-> [c \in Columns |-> BaryCount - 1 - (e * FanOut + c)]] }

\* bary_index_set.entity_index over the elements in the order of
\* entity_iterator(0): the index of the element met at each position.
IndexOrders ==
    { [p \in BaryElements |-> p],
      [p \in BaryElements |-> BaryCount - 1 - p] }

\* The corners of the element of the refinement with a given index.
BaryCorners(i) ==
    << <<0, 0, 0>>, <<1 + (i % 2), 0, 0>>, <<0, 1 + (i % 3), 0>> >>

NoMap == [e \in Elements |-> [c \in Columns |-> 0]]
Zeros(S) == [i \in S |-> 0]

\* bary_map.shape[0], bary_map.shape[1]
Rows(bm) == Cardinality(DOMAIN bm)
Cols(bm) == Cardinality(DOMAIN bm[0])

NonZeroCount(f) == Cardinality({i \in DOMAIN f : f[i] # 0})

RECURSIVE SumFrom0(_, _)
\* f[0] + ... + f[c - 1]
SumFrom0(f, c) == IF c = 0 THEN 0 ELSE f[c - 1] + SumFrom0(f, c - 1)

estData == <<bary_map, entity_index, local_errors_squared_bary, local_errors,
             total_error, capacity_error, k, m, n, writes, reads>>

pipeData == <<slp, hyp, base_slp, rank_one_op, hyp_regularized, rhs_fun,
              lhs, x, it, info, it_count, sol_fun, capacity, base_sol_fun,
              base_slp_times_sol, err>>

\* bary_map = grid.barycentric_descendents_map()
ComputeBaryMap ==
    /\ pc = "cell5"
    /\ \E bm \in DescendentMaps : bary_map' = bm
    /\ pc' = "cell8"
    /\ UNCHANGED <<entity_index, local_errors_squared_bary, local_errors,
                   total_error, capacity_error, k, m, n, writes, reads>>
    /\ UNCHANGED <<pipeData, diamVars, parVars>>

\* local_errors_squared_bary = np.zeros(bary_grid.leaf_view.entity_count(0))
\* local_errors = np.zeros(grid.leaf_view.entity_count(0))
\* bary_index_set = bary_grid.leaf_view.index_set()
AllocateBuffers ==
    /\ pc = "cell8"
    /\ local_errors_squared_bary' = Zeros(BaryElements)
    /\ local_errors' = Zeros(Elements)
    /\ \E o \in IndexOrders : entity_index' = o
    /\ k' = 0
    /\ pc' = "populate"
    /\ UNCHANGED <<bary_map, total_error, capacity_error, m, n, writes, reads>>
    /\ UNCHANGED <<pipeData, diamVars, parVars>>

\* The body of the first loop with the store left out of the loop: only the
\* element met last is stored.
PopulateStep_StoreAfterLoop ==
    /\ pc = "populate"
    /\ k < BaryCount
    /\ \E g \in 0..MaxGrad :
         LET index == entity_index[k]
             gradient_norm == g
             local_error_squared == Diameter(BaryCorners(index)) * gradient_norm * gradient_norm
         IN  /\ g # 0 => NonZeroCount(local_errors_squared_bary) < MaxNonZero
             /\ IF k = BaryCount - 1
                THEN /\ local_errors_squared_bary' =
                          [local_errors_squared_bary EXCEPT ![index] = local_error_squared]
                     /\ writes' = [writes EXCEPT ![index] = @ + 1]
                ELSE UNCHANGED <<local_errors_squared_bary, writes>>
    /\ k' = k + 1
    /\ UNCHANGED <<pc, bary_map, entity_index, local_errors, total_error,
                   capacity_error, m, n, reads>>
    /\ UNCHANGED <<pipeData, diamVars, parVars>>

\* for element in bary_grid.leaf_view.entity_iterator(0):
\*     index = bary_index_set.entity_index(element)
\*     gradient_norm = base_slp_times_sol.surface_grad_norm(element)
\*     local_error_squared = diameter(element) * gradient_norm**2
\*     local_errors_squared_bary[index] = local_error_squared
PopulateStep ==
    /\ pc = "populate"
    /\ k < BaryCount
    /\ \E g \in 0..MaxGrad :
         LET index == entity_index[k]
             gradient_norm == g
             local_error_squared == Diameter(BaryCorners(index)) * gradient_norm * gradient_norm
         IN  /\ g # 0 => NonZeroCount(local_errors_squared_bary) < MaxNonZero
             /\ local_errors_squared_bary' =
                  [local_errors_squared_bary EXCEPT ![index] = local_error_squared]
             /\ writes' = [writes EXCEPT ![index] = @ + 1]
    /\ k' = k + 1
    /\ UNCHANGED <<pc, bary_map, entity_index, local_errors, total_error,
                   capacity_error, m, n, reads>>
    /\ UNCHANGED <<pipeData, diamVars, parVars>>

\* The first loop is exhausted; the second starts with m = 0, n = 0.
PopulateExit ==
    /\ pc = "populate"
    /\ k = BaryCount
    /\ m' = 0
    /\ n' = 0
    /\ pc' = "aggregate"
    /\ UNCHANGED <<bary_map, entity_index, local_errors_squared_bary,
                   local_errors, total_error, capacity_error, k, writes, reads>>
    /\ UNCHANGED <<pipeData, diamVars, parVars>>

\* The body of the second loop with = for +=.
AggregateStep_Assign ==
    /\ pc = "aggregate"
    /\ m < Rows(bary_map)
    /\ n < Cols(bary_map)
    /\ local_errors' = [local_errors EXCEPT
                           ![m] = local_errors_squared_bary[bary_map[m][n]]]
    /\ reads' = [reads EXCEPT ![bary_map[m][n]] = @ + 1]
    /\ IF n + 1 < Cols(bary_map)
       THEN n' = n + 1 /\ m' = m
       ELSE n' = 0 /\ m' = m + 1
    /\ UNCHANGED <<pc, bary_map, entity_index, local_errors_squared_bary,
                   total_error, capacity_error, k, writes>>
    /\ UNCHANGED <<pipeData, diamVars, parVars>>

\* The body of the second loop reading bary_map[n, m] clipped to the shape.
AggregateStep_FirstColumn ==
    /\ pc = "aggregate"
    /\ m < Rows(bary_map)
    /\ n < Cols(bary_map)
    /\ local_errors' = [local_errors EXCEPT
                           ![m] = @ + local_errors_squared_bary[bary_map[m][0]]]
    /\ reads' = [reads EXCEPT ![bary_map[m][0]] = @ + 1]
    /\ IF n + 1 < Cols(bary_map)
       THEN n' = n + 1 /\ m' = m
       ELSE n' = 0 /\ m' = m + 1
    /\ UNCHANGED <<pc, bary_map, entity_index, local_errors_squared_bary,
                   total_error, capacity_error, k, writes>>
    /\ UNCHANGED <<pipeData, diamVars, parVars>>

\* for m in range(bary_map.shape[0]):
\*     for n in range(bary_map.shape[1]):
\*         local_errors[m] += local_errors_squared_bary[bary_map[m, n]]
AggregateStep ==
    /\ pc = "aggregate"
    /\ m < Rows(bary_map)
    /\ n < Cols(bary_map)
    /\ local_errors' = [local_errors EXCEPT
                           ![m] = @ + local_errors_squared_bary[bary_map[m][n]]]
    /\ reads' = [reads EXCEPT ![bary_map[m][n]] = @ + 1]
    /\ IF n + 1 < Cols(bary_map)
       THEN n' = n + 1 /\ m' = m
       ELSE n' = 0 /\ m' = m + 1
    /\ UNCHANGED <<pc, bary_map, entity_index, local_errors_squared_bary,
                   total_error, capacity_error, k, writes>>
    /\ UNCHANGED <<pipeData, diamVars, parVars>>

\* The second loop is exhausted.
AggregateExit ==
    /\ pc = "aggregate"
    /\ m = Rows(bary_map)
    /\ pc' = "sqrt"
    /\ UNCHANGED estData
    /\ UNCHANGED <<pipeData, diamVars, parVars>>

\* local_errors = np.sqrt(local_errors)
TakeSqrt ==
    /\ pc = "sqrt"
    /\ local_errors' = [e \in DOMAIN local_errors |-> Sqrt(local_errors[e])]
    /\ pc' = "total"
    /\ UNCHANGED <<bary_map, entity_index, local_errors_squared_bary,
                   total_error, capacity_error, k, m, n, writes, reads>>
    /\ UNCHANGED <<pipeData, diamVars, parVars>>

\* np.linalg.norm of the vector of the errors of the elements
VecNorm(v) == Sqrt(SumFrom0([e \in DOMAIN v |-> v[e] * v[e]], Cardinality(DOMAIN v)))

\* The norm taken of a buffer of the same shape that was never filled.
ComputeTotalError_EmptyBuffer ==
    /\ pc = "total"
    /\ total_error' = VecNorm(Zeros(DOMAIN local_errors))
    /\ capacity_error' = VecNorm(Zeros(DOMAIN local_errors)) * VecNorm(Zeros(DOMAIN local_errors))
    /\ pc' = "est_done"
    /\ UNCHANGED <<bary_map, entity_index, local_errors_squared_bary,
                   local_errors, k, m, n, writes, reads>>
    /\ UNCHANGED <<pipeData, diamVars, parVars>>

\* total_error = np.linalg.norm(local_errors); the two prints
ComputeTotalError ==
    /\ pc = "total"
    /\ total_error' = VecNorm(local_errors)
    /\ capacity_error' = VecNorm(local_errors) * VecNorm(local_errors)
    /\ pc' = "est_done"
    /\ UNCHANGED <<bary_map, entity_index, local_errors_squared_bary,
                   local_errors, k, m, n, writes, reads>>
    /\ UNCHANGED <<pipeData, diamVars, parVars>>

(***************************************************************************)
(* The aggregation of cell 8 as a scatter-add run by several workers, each *)
(* parent element given to one worker.  An accumulate is a load followed   *)
(* by a store; the workers interleave at will.                             *)
(***************************************************************************)
NumWorkers == 2

Workers == 1..NumWorkers

\* The pairs (m, n) of the double loop, in its order.
AllTasks == [t \in 1..BaryCount |-> <<(t - 1) \div FanOut, (t - 1) % FanOut>>]

\* Tasks dealt out by the index of the descendant instead of the parent.
OwnerOfTask_ByDescendant(e, c) == (bary_map[e][c] % NumWorkers) + 1

\* The worker that owns the accumulator of parent e.
OwnerOfTask(e, c) == (e % NumWorkers) + 1

TasksOf(w) == SelectSeq(AllTasks, LAMBDA t : OwnerOfTask(t[1], t[2]) = w)

Finished(w) == wpos[w] > Len(TasksOf(w))

\* The parent whose accumulator worker w is at.
Target(w) == TasksOf(w)[wpos[w]][1]

\* Worker w loads the accumulator of its next task.
WorkerLoad(w) ==
    /\ pc = "par"
    /\ ~Finished(w)
    /\ ~wtmp[w].held
    /\ wtmp' = [wtmp EXCEPT ![w] = [held |-> TRUE, val |-> acc[Target(w)]]]
    /\ UNCHANGED <<pc, acc, wpos, estVars, diamVars, pipeData>>

\* Worker w stores the sum of what it loaded and the indicator of the task.
WorkerStore(w) ==
    /\ pc = "par"
    /\ ~Finished(w)
    /\ wtmp[w].held
    /\ LET t == TasksOf(w)[wpos[w]]
       IN  acc' = [acc EXCEPT
                      ![t[1]] = wtmp[w].val
                                + local_errors_squared_bary[bary_map[t[1]][t[2]]]]
    /\ wtmp' = [wtmp EXCEPT ![w] = [held |-> FALSE, val |-> 0]]
    /\ wpos' = [wpos EXCEPT ![w] = @ + 1]
    /\ UNCHANGED <<pc, estVars, diamVars, pipeData>>

\* All workers are through: local_errors = np.sqrt(accumulators).
ParJoin ==
    /\ pc = "par"
    /\ \A w \in Workers : Finished(w)
    /\ local_errors' = [e \in Elements |-> Sqrt(acc[e])]
    /\ pc' = "par_done"
    /\ UNCHANGED <<bary_map, entity_index, local_errors_squared_bary,
                   total_error, capacity_error, k, m, n, writes, reads>>
    /\ UNCHANGED <<pipeData, diamVars, parVars>>

\* The indicators on the refinement the workers read.
ParIndicators ==
    { [i \in BaryElements |-> i + 1],
      [i \in BaryElements |-> i % 2],
      [i \in BaryElements |-> IF i = 0 THEN MaxGrad ELSE 0] }

(***************************************************************************)
(* The pipeline of cells 3, 4 and 7.                                       *)
(***************************************************************************)
PipeIdle ==
    /\ slp = NoOp
    /\ hyp = NoOp
    /\ base_slp = NoOp
    /\ rank_one_op = NoOp
    /\ hyp_regularized = NoOp
    /\ lhs = NoOp
    /\ rhs_fun = NoFun
    /\ x = NoFun
    /\ sol_fun = NoFun
    /\ base_sol_fun = NoFun
    /\ base_slp_times_sol = NoFun
    /\ it = 0
    /\ info = 0
    /\ it_count = 0
    /\ capacity = 0
    /\ err = "none"

EstIdle ==
    /\ bary_map = NoMap
    /\ entity_index = Zeros(BaryElements)
    /\ local_errors_squared_bary = Zeros(BaryElements)
    /\ local_errors = Zeros(Elements)
    /\ total_error = 0
    /\ capacity_error = 0
    /\ k = 0
    /\ m = 0
    /\ n = 0
    /\ writes = Zeros(BaryElements)
    /\ reads = Zeros(BaryElements)

DiamIdle ==
    /\ corners = NoCorners
    /\ diam = 0

ParIdle ==
    /\ acc = Zeros(Elements)
    /\ wpos = [w \in Workers |-> 1]
    /\ wtmp = [w \in Workers |-> [held |-> FALSE, val |-> 0]]

Init ==
    /\ pc = "cell3"
    /\ PipeIdle
    /\ EstIdle
    /\ DiamIdle
    /\ ParIdle

Next ==
    \/ AssemblePair
    \/ MakeRankOne
    \/ Regularize
    \/ MakeRhs
    \/ ComposeLhs
    \/ GmresCall
    \/ GmresIterate
    \/ GmresReturn
    \/ FormSolution
    \/ ReportCapacity
    \/ LiftToBase
    \/ ApplyBaseSlp

Spec == Init /\ [][Next]_vars

\* The notebook runs its cells to the end: no step that can be taken is
\* put off for ever.
FairSpec == Spec /\ WF_vars(Next)

(***************************************************************************)
(* Cells 5 and 8 on their own: the estimator for any gradient norms.       *)
(***************************************************************************)
InitEst ==
    /\ pc = "cell5"
    /\ PipeIdle
    /\ EstIdle
    /\ DiamIdle
    /\ ParIdle

NextEst ==
    \/ ComputeBaryMap
    \/ AllocateBuffers
    \/ PopulateStep
    \/ PopulateExit
    \/ AggregateStep
    \/ AggregateExit
    \/ TakeSqrt
    \/ ComputeTotalError

SpecEst == InitEst /\ [][NextEst]_vars

(***************************************************************************)
(* Cell 6 on its own: diameter for any triangle of the coordinate grid.    *)
(***************************************************************************)
InitDiam ==
    /\ pc = "diameter"
    /\ PipeIdle
    /\ EstIdle
    /\ ParIdle
    /\ corners \in Triangles
    /\ diam = 0

NextDiam == CallDiameter

SpecDiam == InitDiam /\ [][NextDiam]_vars

(***************************************************************************)
(* The aggregation run by the workers.                                     *)
(***************************************************************************)
InitPar ==
    /\ pc = "par"
    /\ PipeIdle
    /\ DiamIdle
    /\ ParIdle
    /\ bary_map \in DescendentMaps
    /\ local_errors_squared_bary \in ParIndicators
    /\ entity_index = Zeros(BaryElements)
    /\ local_errors = Zeros(Elements)
    /\ total_error = 0
    /\ capacity_error = 0
    /\ k = 0
    /\ m = 0
    /\ n = 0
    /\ writes = Zeros(BaryElements)
    /\ reads = Zeros(BaryElements)

NextPar ==
    \/ \E w \in Workers : WorkerLoad(w)
    \/ \E w \in Workers : WorkerStore(w)
    \/ ParJoin

SpecPar == InitPar /\ [][NextPar]_vars

(***************************************************************************)
(* Properties of the pipeline.                                             *)
(***************************************************************************)
AfterSolve == {"sol_fun", "capacity", "lift", "base_slp", "done"}
AfterSolution == {"capacity", "lift", "base_slp", "done"}
AfterCapacity == {"lift", "base_slp", "done"}

\* The pair was assembled with the spaces of asg.
AssignedAs(asg) ==
    /\ slp.domain = asg.slp.domain
    /\ slp.range = asg.slp.range
    /\ hyp.domain = asg.hyp.domain
    /\ hyp.range = asg.hyp.range

\* C3: a solve that stops at the iteration cap is not an error: gmres
\* returns the iterate it holds with info # 0 (info = 0 exactly when the
\* tolerance was met) and the iteration count, nothing is raised once the
\* solve has been entered, and the solution and the capacity are formed
\* from that iterate.
C3_NonConvergenceNonFatal ==
    /\ pc \in AfterSolve =>
         /\ info = 0 <=> Converged(lhs, rhs_fun, x.coef)
         /\ info # 0 => info = MaxIter
         /\ it_count = it
         /\ x.space = lhs.domain
    /\ pc = "raised" => x = NoFun
    /\ pc \in AfterSolution => sol_fun = OpApply(hyp_regularized, x)
    /\ pc \in AfterCapacity => capacity = -Integrate(sol_fun)

\* A run that ended with an unconverged solve and a capacity.
C3_Witness ==
    /\ pc = "done"
    /\ info # 0
    /\ ~Converged(lhs, rhs_fun, x.coef)
    /\ capacity = -Integrate(OpApply(hyp_regularized, x))
    /\ capacity # 0

\* C4: the Krylov iteration terminates; it goes on only while the relative
\* residual is not below the tolerance and the count is below the cap, it
\* ends only by returning once one of the two holds, and the count it
\* returns never exceeds the cap.
C4_StoppingRule ==
    /\ [](it <= MaxIter /\ it_count <= MaxIter)
    /\ [][pc = "gmres" /\ pc' = "gmres" =>
            /\ ~Converged(lhs, rhs_fun, x.coef)
            /\ it < MaxIter
            /\ it' = it + 1]_vars
    /\ [][pc = "gmres" /\ pc' # "gmres" =>
            /\ Converged(lhs, rhs_fun, x.coef) \/ it = MaxIter
            /\ pc' = "sol_fun"
            /\ it_count' = it
            /\ x' = x]_vars
    /\ [](pc = "gmres" => <>(pc = "sol_fun"))

\* A solve that met the tolerance before the cap.
C4_Witness ==
    /\ pc = "sol_fun"
    /\ info = 0
    /\ 0 < it_count
    /\ it_count < MaxIter

C7_SolutionRecovery ==
    /\ lhs # NoOp =>
         /\ lhs.mat = MatMul(slp.mat, MatAdd(hyp.mat, RankOneMat))
         /\ rhs_fun.coef = [i \in Dofs |-> -Unit]
    /\ pc \in AfterSolution =>
         /\ x.space = lhs.domain
         /\ info = 0 => MatVec(lhs.mat, x.coef) = rhs_fun.coef
         /\ sol_fun.coef = MatVec(MatAdd(hyp.mat, RankOneMat), x.coef)
         /\ MatVec(slp.mat, sol_fun.coef) = MatVec(lhs.mat, x.coef)
    /\ pc \in AfterCapacity =>
         capacity = -SumTo(MatVec(MatAdd(hyp.mat, RankOneMat), x.coef), Dim)

\* A converged solve whose solution is not what the unregularized operator
\* gives, with its capacity.
C7_Witness ==
    /\ pc = "done"
    /\ info = 0
    /\ sol_fun.coef # MatVec(hyp.mat, x.coef)
    /\ sol_fun.coef # x.coef
    /\ capacity > 0

(***************************************************************************)
(* Properties of the error estimator.                                      *)
(***************************************************************************)
AfterAggregation == {"sqrt", "total", "est_done"}
AfterSqrt == {"total", "est_done"}

\* The sum of the refined indicators over the columns of row e of bary_map.
RowSum(e) ==
    SumFrom0([c \in Columns |-> local_errors_squared_bary[bary_map[e][c]]], FanOut)

RECURSIVE SetSum(_, _)
\* The sum of f over the set S.
SetSum(f, S) ==
    IF S = {} THEN 0
    ELSE LET i == CHOOSE j \in S : TRUE
         IN  f[i] + SetSum(f, S \ {i})

\* The refined elements that descend from e.
Descendants(e) == {bary_map[e][c] : c \in Columns}

\* C1: after the two loops local_errors[m] is the sum over the columns n of
\* local_errors_squared_bary[bary_map[m, n]], which is the sum of the
\* indicators of the descendants of m and of no other element, and after
\* the square root it is the root of that sum.
C1_Aggregation ==
    /\ pc = "sqrt" =>
         \A e \in Elements :
            /\ local_errors[e] = RowSum(e)
            /\ local_errors[e] = SetSum(local_errors_squared_bary, Descendants(e))
    /\ pc \in AfterSqrt =>
         \A e \in Elements :
            /\ local_errors[e] = Sqrt(RowSum(e))
            /\ local_errors[e] = Sqrt(SetSum(local_errors_squared_bary, Descendants(e)))

\* An element with two descendants of non-zero indicator, aggregated.
C1_Witness ==
    /\ pc = "est_done"
    /\ \E e \in Elements :
         /\ Cardinality({i \in Descendants(e) : local_errors_squared_bary[i] # 0}) >= 2
         /\ local_errors[e] = Sqrt(RowSum(e))
         /\ local_errors[e] > 0

\* C2: bary_map has six descendants for every element and, flattened, is
\* one to one onto the indices of the refinement (six distinct indices in
\* a row, no index in two rows, every index in some row); the second loop
\* reads inside local_errors_squared_bary and reads every entry exactly
\* once.
C2_DescendantMapBijective ==
    /\ bary_map # NoMap =>
         /\ Rows(bary_map) = NumElements
         /\ \A e \in DOMAIN bary_map :
              /\ Cardinality(DOMAIN bary_map[e]) = 6
              /\ Cardinality(Descendants(e)) = 6
         /\ \A e1, e2 \in DOMAIN bary_map :
              e1 # e2 => Descendants(e1) \cap Descendants(e2) = {}
         /\ UNION {Descendants(e) : e \in DOMAIN bary_map} = DOMAIN local_errors_squared_bary
    /\ pc = "aggregate" /\ m < Rows(bary_map) =>
         bary_map[m][n] \in DOMAIN local_errors_squared_bary
    /\ \A i \in BaryElements : reads[i] <= 1
    /\ pc \in AfterAggregation => \A i \in BaryElements : reads[i] = 1

\* The loop ran to its end over a map that is not the row by row numbering.
C2_Witness ==
    /\ pc = "sqrt"
    /\ bary_map[0][1] # 1
    /\ \A i \in BaryElements : reads[i] = 1

\* C6: when an element of the refinement has a non-zero indicator the total
\* error and its square, the estimate for the capacity, are greater than
\* zero; a total of zero is printed only when every indicator is zero.
C6_PositiveEstimate ==
    pc = "est_done" =>
        /\ (\E i \in BaryElements : local_errors_squared_bary[i] # 0) =>
             /\ total_error > 0
             /\ capacity_error > 0
        /\ (total_error = 0 \/ capacity_error = 0) =>
             \A i \in BaryElements : local_errors_squared_bary[i] = 0

\* One element alone has a non-zero indicator and the total is positive.
C6_Witness ==
    /\ pc = "est_done"
    /\ NonZeroCount(local_errors_squared_bary) = 1
    /\ total_error > 0
    /\ capacity_error > 0

\* C10: the first loop stores local_errors_squared_bary[index] once for
\* every index (entity_index maps the positions of the iteration onto the
\* indices, as many as there are positions, hence one to one) and is
\* through before the second loop
\* starts: the second loop reads only entries that were stored, and
\* local_errors is zero everywhere when the first sum is taken.
C10_PopulateBeforeAggregate ==
    /\ pc \in {"populate", "aggregate"} \cup AfterAggregation =>
         /\ DOMAIN entity_index = BaryElements
         /\ {entity_index[p] : p \in BaryElements} = BaryElements
    /\ \A i \in BaryElements : writes[i] <= 1
    /\ pc = "populate" =>
         /\ \A i \in BaryElements : reads[i] = 0
         /\ local_errors = Zeros(Elements)
    /\ pc \in {"aggregate"} \cup AfterAggregation =>
         /\ k = BaryCount
         /\ \A i \in BaryElements : writes[i] = 1
    /\ \A i \in BaryElements : reads[i] > 0 => writes[i] = 1
    /\ pc = "aggregate" /\ m = 0 /\ n = 0 => local_errors = Zeros(Elements)

\* The second loop is about to take its first sum, after a first loop that
\* met the elements in another order than that of their indices.
C10_Witness ==
    /\ pc = "aggregate"
    /\ m = 0
    /\ n = 0
    /\ entity_index[0] # 0
    /\ \A i \in BaryElements : writes[i] = 1
    /\ NonZeroCount(local_errors_squared_bary) > 0

(***************************************************************************)
(* Properties of diameter.                                                 *)
(***************************************************************************)
\* The distance between corners i and j, as diameter measures it.
Edge(c, i, j) == Norm(Sub(c[i], c[j]))

\* C9: diameter returns the largest of the three distances between the
\* corners: it is no less than each, it is one of them, and it is the same
\* in whatever order the corners are stored.
C9_DiameterIsMaxEdge ==
    pc = "diameter_done" =>
        /\ diam >= Edge(corners, 1, 2)
        /\ diam >= Edge(corners, 1, 3)
        /\ diam >= Edge(corners, 2, 3)
        /\ diam \in {Edge(corners, 1, 2), Edge(corners, 1, 3), Edge(corners, 2, 3)}
        /\ \A q \in Permutations(1..3) :
              Diameter([i \in 1..3 |-> corners[q[i]]]) = diam

\* A triangle whose longest edge is the one between corners 1 and 2 of the
\* source (the last measured).
C9_Witness ==
    /\ pc = "diameter_done"
    /\ Edge(corners, 2, 3) > Edge(corners, 1, 2)
    /\ Edge(corners, 2, 3) > Edge(corners, 1, 3)
    /\ Edge(corners, 1, 2) > 0
    /\ Edge(corners, 1, 3) > 0
    /\ diam = Edge(corners, 2, 3)

(***************************************************************************)
(* Properties of the aggregation run by workers.                           *)
(***************************************************************************)
\* What the double loop of cell 8 followed by the square root leaves.
SequentialResult == [e \in Elements |-> Sqrt(RowSum(e))]

====
